---- MODULE Spec2Model ----
(***************************************************************************)
(* Model of librustc/hir/check_attr.rs: the attribute validity pass.       *)
(*                                                                         *)
(* The crate is a sequence of nodes (items, statements, expressions) in    *)
(* the order the deep visitor reaches them.  Every visit_* callback is one *)
(* action; it runs the whole check of the node and appends the diagnostics *)
(* it emits to the session's sink.                                         *)
(*                                                                         *)
(* Spans are tuples: <<n>> is the span of node n, <<n, a>> the span of its *)
(* a-th attribute, <<n, a, h>> the span of the h-th nested item of that    *)
(* attribute.  Lexicographic order on these tuples is source order.        *)
(***************************************************************************)
EXTENDS Integers, Sequences, FiniteSets, TLC

\* krate:       the nodes of the crate in the order the deep visitor reaches them
\* target_arch: tcx.sess.target.target.arch
\* pos:         the number of nodes visited so far
\* sink:        the diagnostics emitted to tcx.sess so far
\* codegen:     the ids codegen_fn_attrs was asked about so far
VARIABLES krate, target_arch, pos, sink, codegen

vars == <<krate, target_arch, pos, sink, codegen>>

(***************************************************************************)
(* Bounds of the explored inputs.                                          *)
(***************************************************************************)
MaxHints == 3
MaxAttrs == 2
MaxNodes == 2

(***************************************************************************)
(* Small helpers.                                                          *)
(***************************************************************************)
RECURSIVE SeqsUpTo(_, _)
SeqsUpTo(S, n) ==
    IF n = 0 THEN {<<>>}
    ELSE LET shorter == SeqsUpTo(S, n - 1)
         IN  shorter \cup {Append(s, x) : s \in shorter, x \in S}

(***************************************************************************)
(* enum Target and Target::from_item.                                      *)
(***************************************************************************)
Target ==
    {"Fn", "Struct", "Union", "Enum", "Const", "ForeignMod",
     "Expression", "Statement", "Closure", "Static", "Other"}

from_item(item) ==
    CASE item.node = "ItemFn"         -> "Fn"
      [] item.node = "ItemStruct"     -> "Struct"
      [] item.node = "ItemUnion"      -> "Union"
      [] item.node = "ItemEnum"       -> "Enum"
      [] item.node = "ItemConst"      -> "Const"
      [] item.node = "ItemForeignMod" -> "ForeignMod"
      [] item.node = "ItemStatic"     -> "Static"
      [] OTHER                        -> "Other"

(***************************************************************************)
(* Attribute queries.  An attribute is [name, value, has_list, list, span];*)
(* value_str() is Some iff value, meta_item_list() is Some iff has_list.   *)
(* A nested item is [name, span]; name() is None when name = NoName (a     *)
(* literal such as repr(42)).                                              *)
(***************************************************************************)
NoName == ""

check_name(attr, name) == attr.name = name

(***************************************************************************)
(* The diagnostic builders of the session.                                 *)
(***************************************************************************)
struct_span_err(span, code, msg, label_span, label) ==
    [level |-> "error", code |-> code, msg |-> msg, spans |-> <<span>>,
     labels |-> <<[span |-> label_span, msg |-> label]>>]

span_err(spans, code, msg) ==
    [level |-> "error", code |-> code, msg |-> msg, spans |-> spans,
     labels |-> <<>>]

span_warn(spans, code, msg) ==
    [level |-> "warning", code |-> code, msg |-> msg, spans |-> spans,
     labels |-> <<>>]

NoCode == ""

(***************************************************************************)
(* check_inline.                                                           *)
(***************************************************************************)
check_inline(attr, span, target) ==
    IF target # "Fn" /\ target # "Closure"
    THEN <<struct_span_err(attr.span, "E0518",
                           "attribute should be applied to function or closure",
                           span, "not a function or closure")>>
    ELSE <<>>

(***************************************************************************)
(* check_non_exhaustive.                                                   *)
(***************************************************************************)
check_non_exhaustive_no_return(attr, item, target) ==
    (IF target \in {"Struct", "Enum"} THEN <<>>
     ELSE <<struct_span_err(attr.span, "E0701",
                            "attribute can only be applied to a struct or enum",
                            item.span, "not a struct or enum")>>)
    \o
    (IF attr.has_list \/ attr.value
     THEN <<struct_span_err(attr.span, "E0702", "attribute should be empty",
                            item.span, "not empty")>>
     ELSE <<>>)

check_non_exhaustive(attr, item, target) ==
    IF target \notin {"Struct", "Enum"}
    THEN <<struct_span_err(attr.span, "E0701",
                           "attribute can only be applied to a struct or enum",
                           item.span, "not a struct or enum")>>
    ELSE IF attr.has_list \/ attr.value
         THEN <<struct_span_err(attr.span, "E0702", "attribute should be empty",
                                item.span, "not empty")>>
         ELSE <<>>

(***************************************************************************)
(* is_c_like_enum.                                                         *)
(***************************************************************************)
is_c_like_enum_any_enum(item) == item.node = "ItemEnum"

is_c_like_enum(item) ==
    IF item.node = "ItemEnum"
    THEN \A v \in DOMAIN item.variants : item.variants[v] = "Unit"
    ELSE FALSE

(***************************************************************************)
(* emit_repr_error.                                                        *)
(***************************************************************************)
emit_repr_error(hint_span, label_span, hint_message, label_message) ==
    struct_span_err(hint_span, "E0517", hint_message, label_span, label_message)

(***************************************************************************)
(* check_repr.                                                             *)
(***************************************************************************)
IntReprNames ==
    {"i8", "u8", "i16", "u16", "i32", "u32", "i64", "u64", "isize", "usize"}

\* The hints of all #[repr(..)] attributes of the item, in written order.
repr_hints_recognized_only(item) ==
    LET RECURSIVE Go(_)
        Go(attrs) ==
            IF attrs = <<>> THEN <<>>
            ELSE LET attr == Head(attrs)
                     Known(h) == h.name \in IntReprNames
                                   \cup {"C", "packed", "simd", "align", "transparent"}
                 IN  (IF attr.name = "repr" /\ attr.has_list
                      THEN SelectSeq(attr.list, Known) ELSE <<>>)
                     \o Go(Tail(attrs))
    IN  Go(item.attrs)

repr_hints(item) ==
    LET RECURSIVE Go(_)
        Go(attrs) ==
            IF attrs = <<>> THEN <<>>
            ELSE LET attr == Head(attrs)
                 IN  (IF attr.name = "repr" /\ attr.has_list
                      THEN attr.list ELSE <<>>)
                     \o Go(Tail(attrs))
    IN  Go(item.attrs)

\* The placement test of one match arm: TRUE when the arm yields the
\* (article, allowed_targets) pair, FALSE when it continues.
repr_misplaced_simd_on_enum(name, target) ==
    CASE name = "C"          -> target \notin {"Struct", "Union", "Enum"}
      [] name = "packed"     -> target \notin {"Struct", "Union"}
      [] name = "simd"       -> target \notin {"Struct", "Enum"}
      [] name = "align"      -> target \notin {"Struct", "Union"}
      [] name = "transparent" -> target # "Struct"
      [] name \in IntReprNames -> target # "Enum"
      [] OTHER               -> FALSE

repr_misplaced(name, target) ==
    CASE name = "C"          -> target # "Struct" /\ target # "Union" /\ target # "Enum"
      [] name = "packed"     -> target # "Struct" /\ target # "Union"
      [] name = "simd"       -> target # "Struct"
      [] name = "align"      -> target # "Struct" /\ target # "Union"
      [] name = "transparent" -> target # "Struct"
      [] name \in IntReprNames -> target # "Enum"
      [] OTHER               -> FALSE

repr_article(name) == IF name \in IntReprNames THEN "an" ELSE "a"

repr_allowed_targets(name) ==
    CASE name = "C"          -> "struct, enum or union"
      [] name = "packed"     -> "struct or union"
      [] name = "simd"       -> "struct"
      [] name = "align"      -> "struct or union"
      [] name = "transparent" -> "struct"
      [] OTHER               -> "enum"

\* One iteration of `for hint in &hints`: st is (int_reprs, is_c, is_simd,
\* is_transparent, diagnostics emitted so far).
repr_step_flags_after_placement(st, hint, item, target) ==
    IF hint.name = NoName THEN st
    ELSE LET name == hint.name
             bad  == repr_misplaced(name, target)
             st1  == [st EXCEPT
                        !.is_c = @ \/ (name = "C" /\ ~bad),
                        !.is_simd = @ \/ (name = "simd" /\ ~bad),
                        !.is_transparent = @ \/ (name = "transparent" /\ ~bad),
                        !.int_reprs = IF name \in IntReprNames /\ ~bad
                                      THEN @ + 1 ELSE @]
         IN  IF bad
             THEN [st1 EXCEPT !.diags = Append(@,
                     emit_repr_error(hint.span, item.span,
                        "attribute should be applied to " \o repr_allowed_targets(name),
                        "not " \o repr_article(name) \o " " \o repr_allowed_targets(name)))]
             ELSE st1

repr_step(st, hint, item, target) ==
    IF hint.name = NoName THEN st
    ELSE LET name == hint.name
             st1  == [st EXCEPT
                        !.is_c = @ \/ name = "C",
                        !.is_simd = @ \/ name = "simd",
                        !.is_transparent = @ \/ name = "transparent",
                        !.int_reprs = IF name \in IntReprNames THEN @ + 1 ELSE @]
         IN  IF repr_misplaced(name, target)
             THEN [st1 EXCEPT !.diags = Append(@,
                     emit_repr_error(hint.span, item.span,
                        "attribute should be applied to " \o repr_allowed_targets(name),
                        "not " \o repr_article(name) \o " " \o repr_allowed_targets(name)))]
             ELSE st1

RECURSIVE repr_scan(_, _, _, _)
repr_scan(st, hints, item, target) ==
    IF hints = <<>> THEN st
    ELSE repr_scan(repr_step(st, Head(hints), item, target), Tail(hints), item, target)

hint_spans_of(hints) == [i \in DOMAIN hints |-> hints[i].span]

\* The two aggregate checks after the loop.
repr_aggregate_early_return(st, hints, item) ==
    IF st.is_transparent /\ Len(hints) > 1
    THEN <<span_err(hint_spans_of(hints), "E0692",
                    "transparent struct cannot have other repr hints")>>
    ELSE IF \/ st.int_reprs > 1
            \/ (st.is_simd /\ st.is_c)
            \/ (st.int_reprs = 1 /\ st.is_c /\ is_c_like_enum(item))
         THEN <<span_warn(hint_spans_of(hints), "E0566",
                          "conflicting representation hints")>>
         ELSE <<>>

repr_aggregate(st, hints, item) ==
    (IF st.is_transparent /\ Len(hints) > 1
     THEN <<span_err(hint_spans_of(hints), "E0692",
                     "transparent struct cannot have other repr hints")>>
     ELSE <<>>)
    \o
    (IF \/ st.int_reprs > 1
        \/ (st.is_simd /\ st.is_c)
        \/ (st.int_reprs = 1 /\ st.is_c /\ is_c_like_enum(item))
     THEN <<span_warn(hint_spans_of(hints), "E0566",
                      "conflicting representation hints")>>
     ELSE <<>>)

check_repr(item, target) ==
    LET hints == repr_hints(item)
        st0   == [int_reprs |-> 0, is_c |-> FALSE, is_simd |-> FALSE,
                  is_transparent |-> FALSE, diags |-> <<>>]
        st    == repr_scan(st0, hints, item, target)
    IN  st.diags \o repr_aggregate(st, hints, item)

(***************************************************************************)
(* check_used.  The source writes static in backquotes in the message.     *)
(***************************************************************************)
check_used_not_fn(item, target) ==
    LET RECURSIVE Go(_)
        Go(attrs) ==
            IF attrs = <<>> THEN <<>>
            ELSE (IF Head(attrs).name = "used" /\ target = "Fn"
                  THEN <<span_err(<<Head(attrs).span>>, NoCode,
                                  "attribute must be applied to a 'static' variable")>>
                  ELSE <<>>)
                 \o Go(Tail(attrs))
    IN  Go(item.attrs)

check_used(item, target) ==
    LET RECURSIVE Go(_)
        Go(attrs) ==
            IF attrs = <<>> THEN <<>>
            ELSE (IF Head(attrs).name = "used" /\ target # "Static"
                  THEN <<span_err(<<Head(attrs).span>>, NoCode,
                                  "attribute must be applied to a 'static' variable")>>
                  ELSE <<>>)
                 \o Go(Tail(attrs))
    IN  Go(item.attrs)

(***************************************************************************)
(* check_attributes.                                                       *)
(***************************************************************************)
\* `&& false // FIXME: eventually enable this warning when stable`
wasm_import_module_warning_enabled == FALSE

calls_codegen_fn_attrs(target) == target = "Fn" \/ target = "Const"

\* item.attrs.iter().find(|a| a.check_name("target_feature"))
find_target_feature(attrs) ==
    LET found == {i \in DOMAIN attrs : check_name(attrs[i], "target_feature")}
    IN  IF found = {} THEN 0
        ELSE CHOOSE i \in found : \A j \in found : i <= j

target_feature_err(a, item) ==
    struct_span_err(a.span, NoCode, "attribute should be applied to a function",
                    item.span, "not a function")

check_target_feature_each(item, target) ==
    IF calls_codegen_fn_attrs(target) THEN <<>>
    ELSE LET RECURSIVE Go(_)
             Go(attrs) ==
                 IF attrs = <<>> THEN <<>>
                 ELSE (IF check_name(Head(attrs), "target_feature")
                       THEN <<target_feature_err(Head(attrs), item)>> ELSE <<>>)
                      \o Go(Tail(attrs))
         IN  Go(item.attrs)

check_target_feature(item, target) ==
    IF calls_codegen_fn_attrs(target) THEN <<>>
    ELSE LET i == find_target_feature(item.attrs)
         IN  IF i # 0 THEN <<target_feature_err(item.attrs[i], item)>> ELSE <<>>

\* The body of `for attr in &item.attrs` for one attribute.
check_one_attr(attr, item, target) ==
    IF check_name(attr, "inline") THEN check_inline(attr, item.span, target)
    ELSE IF check_name(attr, "non_exhaustive")
    THEN check_non_exhaustive(attr, item, target)
    ELSE IF check_name(attr, "wasm_import_module")
    THEN (IF ~attr.value
          THEN <<span_err(<<attr.span>>, NoCode,
                          "must be of the form #[wasm_import_module = \"...\"]")>>
          ELSE <<>>)
         \o
         (IF target # "ForeignMod"
          THEN <<span_err(<<attr.span>>, NoCode,
                          "must only be attached to foreign modules")>>
          ELSE <<>>)
    ELSE IF check_name(attr, "wasm_custom_section")
    THEN (IF target # "Const"
          THEN <<span_err(<<attr.span>>, NoCode, "only allowed on consts")>>
          ELSE <<>>)
    ELSE <<>>

RECURSIVE check_attr_loop(_, _, _)
check_attr_loop(attrs, item, target) ==
    IF attrs = <<>> THEN <<>>
    ELSE check_one_attr(Head(attrs), item, target)
         \o check_attr_loop(Tail(attrs), item, target)

has_wasm_import_module(item) ==
    \E i \in DOMAIN item.attrs : check_name(item.attrs[i], "wasm_import_module")

check_wasm_import_module_required(item, target, arch) ==
    IF /\ target = "ForeignMod"
       /\ ~has_wasm_import_module(item)
       /\ arch = "wasm32"
       /\ wasm_import_module_warning_enabled
    THEN <<span_warn(<<item.span>>, NoCode,
                     "must have a #[wasm_import_module = \"...\"] attribute, this will become a hard error before too long")>>
    ELSE <<>>

check_attributes_used_first(item, target, arch) ==
    check_used(item, target)
    \o check_target_feature(item, target)
    \o check_attr_loop(item.attrs, item, target)
    \o check_wasm_import_module_required(item, target, arch)
    \o check_repr(item, target)

check_attributes(item, target, arch) ==
    check_target_feature(item, target)
    \o check_attr_loop(item.attrs, item, target)
    \o check_wasm_import_module_required(item, target, arch)
    \o check_repr(item, target)
    \o check_used(item, target)

(***************************************************************************)
(* check_stmt_attributes and check_expr_attributes.  A statement's attrs   *)
(* field is stmt.node.attrs().                                             *)
(***************************************************************************)
stmt_repr_err(attr, stmt) ==
    emit_repr_error(attr.span, stmt.span,
                    "attribute should not be applied to a statement",
                    "not a struct, enum or union")

expr_repr_err(attr, expr) ==
    emit_repr_error(attr.span, expr.span,
                    "attribute should not be applied to an expression",
                    "not defining a struct, enum or union")

check_stmt_attributes_all_stmts(stmt) ==
    LET RECURSIVE Go(_)
        Go(attrs) ==
            IF attrs = <<>> THEN <<>>
            ELSE (IF check_name(Head(attrs), "inline")
                  THEN check_inline(Head(attrs), stmt.span, "Statement") ELSE <<>>)
                 \o (IF check_name(Head(attrs), "repr")
                     THEN <<stmt_repr_err(Head(attrs), stmt)>> ELSE <<>>)
                 \o Go(Tail(attrs))
    IN  Go(stmt.attrs)

check_stmt_attributes(stmt) ==
    LET RECURSIVE Go(_)
        Go(attrs) ==
            IF attrs = <<>> THEN <<>>
            ELSE (IF check_name(Head(attrs), "inline")
                  THEN check_inline(Head(attrs), stmt.span, "Statement") ELSE <<>>)
                 \o (IF check_name(Head(attrs), "repr")
                     THEN <<stmt_repr_err(Head(attrs), stmt)>> ELSE <<>>)
                 \o Go(Tail(attrs))
    IN  IF stmt.node = "StmtDecl" THEN Go(stmt.attrs) ELSE <<>>

expr_target(expr) == IF expr.node = "ExprClosure" THEN "Closure" ELSE "Expression"

check_expr_attributes(expr) ==
    LET target == expr_target(expr)
        RECURSIVE Go(_)
        Go(attrs) ==
            IF attrs = <<>> THEN <<>>
            ELSE (IF check_name(Head(attrs), "inline")
                  THEN check_inline(Head(attrs), expr.span, target) ELSE <<>>)
                 \o (IF check_name(Head(attrs), "repr")
                     THEN <<expr_repr_err(Head(attrs), expr)>> ELSE <<>>)
                 \o Go(Tail(attrs))
    IN  Go(expr.attrs)

(***************************************************************************)
(* The Visitor callbacks.  walk_item / walk_stmt / walk_expr continue the  *)
(* traversal: the next node of krate is visited next.                      *)
(***************************************************************************)
visit_item ==
    /\ pos < Len(krate)
    /\ krate[pos + 1].kind = "Item"
    /\ LET item   == krate[pos + 1]
           target == from_item(item)
       IN  /\ sink' = sink \o check_attributes(item, target, target_arch)
           /\ codegen' = IF calls_codegen_fn_attrs(target)
                         THEN Append(codegen, item.id) ELSE codegen
    /\ pos' = pos + 1
    /\ UNCHANGED <<krate, target_arch>>

visit_stmt ==
    /\ pos < Len(krate)
    /\ krate[pos + 1].kind = "Stmt"
    /\ sink' = sink \o check_stmt_attributes(krate[pos + 1])
    /\ pos' = pos + 1
    /\ UNCHANGED <<krate, target_arch, codegen>>

visit_expr ==
    /\ pos < Len(krate)
    /\ krate[pos + 1].kind = "Expr"
    /\ sink' = sink \o check_expr_attributes(krate[pos + 1])
    /\ pos' = pos + 1
    /\ UNCHANGED <<krate, target_arch, codegen>>

(***************************************************************************)
(* Inputs.  A shape is a node or attribute without its spans; MkNode puts  *)
(* the n-th node of the crate together.                                    *)
(***************************************************************************)
Word(name)      == [name |-> name, value |-> FALSE, has_list |-> FALSE, list |-> <<>>]
NameValue(name) == [name |-> name, value |-> TRUE, has_list |-> FALSE, list |-> <<>>]
List(name, l)   == [name |-> name, value |-> FALSE, has_list |-> TRUE, list |-> l]

MkAttr(n, a, shape) ==
    [name |-> shape.name, value |-> shape.value, has_list |-> shape.has_list,
     list |-> [h \in DOMAIN shape.list |-> [name |-> shape.list[h], span |-> <<n, a, h>>]],
     span |-> <<n, a>>]

MkNode(n, shape) ==
    [kind |-> shape.kind, node |-> shape.node, id |-> n, span |-> <<n>>,
     attrs |-> [a \in DOMAIN shape.attrs |-> MkAttr(n, a, shape.attrs[a])],
     variants |-> shape.variants]

MkCrate(shapes) == [n \in DOMAIN shapes |-> MkNode(n, shapes[n])]

NodeShape(kind, node, attrs, variants) ==
    [kind |-> kind, node |-> node, attrs |-> attrs, variants |-> variants]

ItemNodes ==
    {"ItemFn", "ItemStruct", "ItemUnion", "ItemEnum", "ItemConst",
     "ItemForeignMod", "ItemStatic", "ItemMod"}

EnumVariants ==
    {<<>>, <<"Unit", "Unit">>, <<"Unit", "Tuple">>, <<"Struct">>}

ItemVariants(node) == IF node = "ItemEnum" THEN EnumVariants ELSE {<<>>}

\* A statement or an expression lives in the body of a function.
InBody(shape) == <<NodeShape("Item", "ItemFn", <<>>, <<>>), shape>>

Init0 ==
    /\ pos = 0
    /\ sink = <<>>
    /\ codegen = <<>>

\* repr hints in depth: one item, its repr attributes written in one list or
\* in two with a #[doc(hidden)] between them.
HintNames ==
    {"C", "packed", "simd", "align", "transparent", "u8", "u16", "foo", NoName}

\* The ways the hints hs are written on one item.
ReprAttrLists(hs) ==
    {<<List("repr", hs)>>}
    \cup (IF hs = <<>> THEN {<<>>, <<Word("repr")>>} ELSE {})
    \cup (IF Len(hs) >= 2
          THEN {<<List("repr", <<Head(hs)>>), List("doc", <<"hidden">>),
                  List("repr", Tail(hs))>>}
          ELSE {})

InitRepr ==
    /\ \E hs \in SeqsUpTo(HintNames, MaxHints), k \in ItemNodes :
         \E as \in ReprAttrLists(hs), vs \in ItemVariants(k) :
            krate = MkCrate(<<NodeShape("Item", k, as, vs)>>)
    /\ target_arch = "x86_64"
    /\ Init0

NextRepr == visit_item

SpecRepr == InitRepr /\ [][NextRepr]_vars

\* every attribute kind on every kind of node: one node with up to MaxAttrs
\* attributes.
AttrShapes ==
    {Word("inline"), Word("non_exhaustive"), NameValue("non_exhaustive"),
     List("non_exhaustive", <<"foo">>), NameValue("wasm_import_module"),
     Word("wasm_import_module"), NameValue("wasm_custom_section"), Word("used"),
     List("target_feature", <<"enable">>), List("repr", <<"C">>), NameValue("doc")}

AttrLists == SeqsUpTo(AttrShapes, MaxAttrs)

BodyShapes(attrLists) ==
    {NodeShape("Stmt", k, as, <<>>) :
        k \in {"StmtDecl", "StmtExpr", "StmtSemi"}, as \in attrLists}
    \cup {NodeShape("Expr", k, as, <<>>) :
        k \in {"ExprClosure", "ExprCall"}, as \in attrLists}

InitNode ==
    /\ \/ \E k \in ItemNodes, as \in AttrLists :
            krate = MkCrate(<<NodeShape("Item", k, as,
                                        IF k = "ItemEnum" THEN <<"Unit">> ELSE <<>>)>>)
       \/ \E s \in BodyShapes(AttrLists) : krate = MkCrate(InBody(s))
    /\ target_arch \in {"x86_64", "wasm32"}
    /\ Init0

NextNode == visit_item \/ visit_stmt \/ visit_expr

SpecNode == InitNode /\ [][NextNode]_vars

\* whole traversals: up to MaxNodes nodes.
TraversalAttrLists ==
    {<<Word("inline")>>,
     <<List("repr", <<"simd">>), Word("inline")>>,
     <<Word("used"), Word("inline")>>,
     <<Word("inline"), List("target_feature", <<"enable">>)>>,
     <<Word("wasm_import_module"), Word("inline")>>,
     <<Word("used"), List("repr", <<"transparent", "u8", "u8">>),
       NameValue("non_exhaustive")>>}

TraversalShapes ==
    {NodeShape("Item", k, as, <<>>) : k \in {"ItemEnum", "ItemFn"}, as \in TraversalAttrLists}
    \cup {NodeShape("Stmt", "StmtDecl", as, <<>>) : as \in TraversalAttrLists}
    \cup {NodeShape("Expr", k, as, <<>>) : k \in {"ExprClosure", "ExprCall"}, as \in TraversalAttrLists}

HasBody(shape) == shape.node = "ItemFn"

WellFormed(shapes) ==
    \A i \in DOMAIN shapes :
        shapes[i].kind # "Item" => \E j \in 1..(i - 1) : HasBody(shapes[j])

Init ==
    /\ \E ss \in SeqsUpTo(TraversalShapes, MaxNodes) :
         /\ WellFormed(ss)
         /\ krate = MkCrate(ss)
    /\ target_arch = "x86_64"
    /\ Init0

Next == visit_item \/ visit_stmt \/ visit_expr

Spec == Init /\ [][Next]_vars

(***************************************************************************)
(* Vocabulary of the properties.  It is written from the statements, not   *)
(* from the operators above: it reads only the crate and the sink.         *)
(***************************************************************************)
VisitedItems == {n \in 1..pos : krate[n].kind = "Item"}
VisitedStmts == {n \in 1..pos : krate[n].kind = "Stmt"}
VisitedExprs == {n \in 1..pos : krate[n].kind = "Expr"}

\* The diagnostics of node n: every span of this pass starts with its node.
NodeOf(d)   == d.spans[1][1]
DiagsOf(n)  == {i \in DOMAIN sink : NodeOf(sink[i]) = n}
CodeAt(n, code) == {i \in DOMAIN sink : sink[i].code = code /\ NodeOf(sink[i]) = n}
\* The diagnostics with message msg whose only primary span is span.
MsgAt(span, msg) == {i \in DOMAIN sink : sink[i].msg = msg /\ sink[i].spans = <<span>>}
CodeAtSpan(span, code) == {i \in DOMAIN sink : sink[i].code = code /\ sink[i].spans = <<span>>}

AttrsNamed(n, name) == {a \in DOMAIN krate[n].attrs : krate[n].attrs[a].name = name}

\* The occurrences <<a, h>> of repr sub-items on node n, and the recognized ones.
RecognizedHints == {"C", "packed", "simd", "align", "transparent"} \cup IntReprNames
SubItems(n) ==
    UNION {{<<a, h>> : h \in DOMAIN krate[n].attrs[a].list} :
             a \in {b \in AttrsNamed(n, "repr") : krate[n].attrs[b].has_list}}
HintName(n, o) == krate[n].attrs[o[1]].list[o[2]].name
HintSpan(n, o) == <<n, o[1], o[2]>>
Hints(n)       == {o \in SubItems(n) : HintName(n, o) \in RecognizedHints}
HintsNamed(n, names) == {o \in SubItems(n) : HintName(n, o) \in names}

\* All sub-item spans of node n in written order.
RECURSIVE SortedSpans(_, _)
SortedSpans(n, os) ==
    IF os = {} THEN <<>>
    ELSE LET first == CHOOSE o \in os : \A p \in os :
                        o[1] < p[1] \/ (o[1] = p[1] /\ o[2] <= p[2])
         IN  <<HintSpan(n, first)>> \o SortedSpans(n, os \ {first})

RequiredTargets(name) ==
    CASE name = "C"           -> {"Struct", "Union", "Enum"}
      [] name = "packed"      -> {"Struct", "Union"}
      [] name = "simd"        -> {"Struct"}
      [] name = "align"       -> {"Struct", "Union"}
      [] name = "transparent" -> {"Struct"}
      [] OTHER                -> {"Enum"}

TargetOf(n) ==
    CASE krate[n].node = "ItemFn"         -> "Fn"
      [] krate[n].node = "ItemStruct"     -> "Struct"
      [] krate[n].node = "ItemUnion"      -> "Union"
      [] krate[n].node = "ItemEnum"       -> "Enum"
      [] krate[n].node = "ItemConst"      -> "Const"
      [] krate[n].node = "ItemForeignMod" -> "ForeignMod"
      [] krate[n].node = "ItemStatic"     -> "Static"
      [] OTHER                            -> "Other"

Misplaced(n) == {o \in Hints(n) : TargetOf(n) \notin RequiredTargets(HintName(n, o))}

PlainEnum(n) ==
    /\ krate[n].node = "ItemEnum"
    /\ \A v \in DOMAIN krate[n].variants : krate[n].variants[v] = "Unit"

IntCount(n)       == Cardinality(HintsNamed(n, IntReprNames))
HasC(n)           == HintsNamed(n, {"C"}) # {}
HasSimd(n)        == HintsNamed(n, {"simd"}) # {}
HasTransparent(n) == HintsNamed(n, {"transparent"}) # {}

ConflictingHints(n) ==
    \/ IntCount(n) > 1
    \/ (HasSimd(n) /\ HasC(n))
    \/ (IntCount(n) = 1 /\ HasC(n) /\ PlainEnum(n))

B2N(b) == IF b THEN 1 ELSE 0

(***************************************************************************)
(* C1.                                                                     *)
(***************************************************************************)
TransparentPlusOther(n) == HasTransparent(n) /\ Cardinality(Hints(n)) > 1

\* C1 as stated: a declaration whose repr hints include transparent and at
\* least one other hint gets exactly one E0692 error and no E0566 warning.
C1_TransparentSuppressesWarning ==
    \A n \in VisitedItems :
        TransparentPlusOther(n) =>
            /\ Cardinality(CodeAt(n, "E0692")) = 1
            /\ CodeAt(n, "E0566") = {}

\* C1 amended: a declaration whose repr hints include transparent and at
\* least one other hint gets exactly one E0692 error, in any hint order; the
\* E0566 warning is not suppressed by it and is emitted, once, exactly when
\* the hints conflict (two integer widths, C with simd, or C with one integer
\* width on a plain enum).
C1_TransparentErrorAndWarning ==
    \A n \in VisitedItems :
        TransparentPlusOther(n) =>
            /\ Cardinality(CodeAt(n, "E0692")) = 1
            /\ Cardinality(CodeAt(n, "E0566")) = B2N(ConflictingHints(n))

C1_Witness ==
    \E n \in VisitedItems :
        /\ TransparentPlusOther(n)
        /\ IntCount(n) > 1
        /\ CodeAt(n, "E0692") # {}
        /\ CodeAt(n, "E0566") # {}

(***************************************************************************)
(* C3.                                                                     *)
(***************************************************************************)
\* C3: every occurrence of a recognized repr hint on a visited declaration
\* has exactly one E0517 error at its own span, labelled at the declaration's
\* span, if the target is outside the hint's required targets, and none
\* otherwise.
C3_ReprPlacement ==
    \A n \in VisitedItems : \A o \in Hints(n) :
        LET errs == CodeAtSpan(HintSpan(n, o), "E0517")
        IN  IF TargetOf(n) \in RequiredTargets(HintName(n, o))
            THEN errs = {}
            ELSE /\ Cardinality(errs) = 1
                 /\ \A i \in errs :
                      /\ sink[i].level = "error"
                      /\ Len(sink[i].labels) = 1
                      /\ sink[i].labels[1].span = <<n>>

C3_Witness ==
    \E n \in VisitedItems :
        /\ krate[n].node = "ItemEnum"
        /\ Cardinality(SubItems(n)) = 1
        /\ \E o \in Hints(n) : HintName(n, o) = "simd"
        /\ Cardinality(DiagsOf(n)) = 1
        /\ Cardinality(CodeAt(n, "E0517")) = 1

(***************************************************************************)
(* C4.                                                                     *)
(***************************************************************************)
\* C4: a visited declaration without a transparent hint gets the E0566
\* warning exactly once, spanning every hint occurrence, iff its hints
\* conflict, and never otherwise; repr(C, u8) on an enum with a data-carrying
\* variant gets no diagnostic at all.
C4_ConflictWarning ==
    \A n \in VisitedItems :
        ~HasTransparent(n) =>
            /\ Cardinality(CodeAt(n, "E0566")) = B2N(ConflictingHints(n))
            /\ \A i \in CodeAt(n, "E0566") :
                 /\ sink[i].level = "warning"
                 /\ sink[i].spans = SortedSpans(n, SubItems(n))
            /\ ( /\ krate[n].node = "ItemEnum"
                 /\ ~PlainEnum(n)
                 /\ Cardinality(SubItems(n)) = 2
                 /\ HasC(n)
                 /\ IntCount(n) = 1 ) => DiagsOf(n) = {}

C4_Witness ==
    \E n \in VisitedItems :
        /\ PlainEnum(n)
        /\ krate[n].variants # <<>>
        /\ Cardinality(SubItems(n)) = 2
        /\ HasC(n)
        /\ IntCount(n) = 1
        /\ Cardinality(DiagsOf(n)) = 1
        /\ Cardinality(CodeAt(n, "E0566")) = 1

(***************************************************************************)
(* C10.                                                                    *)
(***************************************************************************)
ReprDiags(n) == CodeAt(n, "E0517") \cup CodeAt(n, "E0692") \cup CodeAt(n, "E0566")

\* C10: the aggregate analysis counts a recognized hint whether or not it is
\* placed validly: the repr diagnostics of a visited declaration are one per
\* misplaced recognized hint occurrence plus the aggregate diagnostics, which
\* are decided by all recognized hints.
C10_PlacementAndAggregate ==
    \A n \in VisitedItems :
        /\ Cardinality(CodeAt(n, "E0517")) = Cardinality(Misplaced(n))
        /\ Cardinality(CodeAt(n, "E0692"))
             = B2N(HasTransparent(n) /\ Cardinality(SubItems(n)) > 1)
        /\ Cardinality(CodeAt(n, "E0566")) = B2N(ConflictingHints(n))
        /\ Cardinality(ReprDiags(n))
             = Cardinality(Misplaced(n))
               + B2N(HasTransparent(n) /\ Cardinality(SubItems(n)) > 1)
               + B2N(ConflictingHints(n))

C10_Witness ==
    \E n \in VisitedItems :
        /\ krate[n].node = "ItemStruct"
        /\ Cardinality(SubItems(n)) = 2
        /\ IntCount(n) = 2
        /\ Cardinality(CodeAt(n, "E0517")) = 2
        /\ Cardinality(CodeAt(n, "E0566")) = 1

(***************************************************************************)
(* C5.                                                                     *)
(***************************************************************************)
\* The item without its unrecognized and unnamed repr sub-items; the
\* remaining sub-items keep their spans.
Recognized(hint) == hint.name \in RecognizedHints
StripAttr(attr) ==
    IF attr.name = "repr" /\ attr.has_list
    THEN [attr EXCEPT !.list = SelectSeq(@, Recognized)]
    ELSE attr
Strip(item) == [item EXCEPT !.attrs = [a \in DOMAIN @ |-> StripAttr(@[a])]]

\* A diagnostic without its spans.
Kind(d) == <<d.level, d.code, d.msg>>
Kinds(ds) == [i \in DOMAIN ds |-> Kind(ds[i])]
SinkOf(n) == SelectSeq(sink, LAMBDA d : NodeOf(d) = n)

\* C5 as stated: the diagnostics of a declaration are those of the same
\* declaration with all unrecognized and unnamed repr sub-items removed; in
\* particular repr(transparent, <unrecognized>) yields no E0692 error.
C5_UnrecognizedIgnored ==
    \A n \in VisitedItems :
        /\ Kinds(SinkOf(n))
             = Kinds(check_attributes(Strip(krate[n]), TargetOf(n), target_arch))
        /\ (HasTransparent(n) /\ Cardinality(Hints(n)) = 1) => CodeAt(n, "E0692") = {}

\* C5 amended: unrecognized and unnamed repr sub-items get no placement error
\* and change neither the placement errors nor the E0566 warning of the
\* declaration, but they are counted in the number of hints and their spans
\* are reported: E0692 is emitted iff transparent is present and the
\* declaration has more than one repr sub-item of any kind, so
\* repr(transparent, <unrecognized>) on a struct yields the E0692 error, and
\* E0692 and E0566 span every sub-item.
C5_UnrecognizedCounted ==
    \A n \in VisitedItems :
        LET stripped == check_attributes(Strip(krate[n]), TargetOf(n), target_arch)
            Not0692(d) == d.code # "E0692"
        IN  /\ \A o \in SubItems(n) \ Hints(n) :
                 \A i \in DOMAIN sink : HintSpan(n, o) # sink[i].spans[1]
                                        \/ sink[i].code # "E0517"
            /\ SelectSeq(SinkOf(n), LAMBDA d : d.code = "E0517")
                 = SelectSeq(stripped, LAMBDA d : d.code = "E0517")
            /\ Kinds(SelectSeq(SinkOf(n), Not0692)) = Kinds(SelectSeq(stripped, Not0692))
            /\ Cardinality(CodeAt(n, "E0692"))
                 = B2N(HasTransparent(n) /\ Cardinality(SubItems(n)) > 1)
            /\ \A i \in CodeAt(n, "E0692") \cup CodeAt(n, "E0566") :
                 sink[i].spans = SortedSpans(n, SubItems(n))

C5_Witness ==
    \E n \in VisitedItems :
        /\ krate[n].node = "ItemStruct"
        /\ Cardinality(SubItems(n)) = 2
        /\ Cardinality(Hints(n)) = 1
        /\ HasTransparent(n)
        /\ Cardinality(DiagsOf(n)) = 1
        /\ Cardinality(CodeAt(n, "E0692")) = 1

(***************************************************************************)
(* C2.                                                                     *)
(***************************************************************************)
InlineMsg        == "attribute should be applied to function or closure"
NonExhaustiveMsg == "attribute can only be applied to a struct or enum"
NotEmptyMsg      == "attribute should be empty"
ForeignModMsg    == "must only be attached to foreign modules"
ConstsMsg        == "only allowed on consts"
UsedMsg          == "attribute must be applied to a 'static' variable"
TargetFeatureMsg == "attribute should be applied to a function"

PlacementKinds ==
    {"inline", "non_exhaustive", "wasm_import_module", "wasm_custom_section",
     "used", "target_feature"}

PlacementMsg(name) ==
    CASE name = "inline"              -> InlineMsg
      [] name = "non_exhaustive"      -> NonExhaustiveMsg
      [] name = "wasm_import_module"  -> ForeignModMsg
      [] name = "wasm_custom_section" -> ConstsMsg
      [] name = "used"                -> UsedMsg
      [] name = "target_feature"      -> TargetFeatureMsg

AllowedTargetsStated(name) ==
    CASE name = "inline"              -> {"Fn", "Closure"}
      [] name = "non_exhaustive"      -> {"Struct", "Enum"}
      [] name = "wasm_import_module"  -> {"ForeignMod"}
      [] name = "wasm_custom_section" -> {"Const"}
      [] name = "used"                -> {"Static"}
      [] name = "target_feature"      -> {"Fn"}

AllowedTargets(name) ==
    IF name = "target_feature" THEN {"Fn", "Const"} ELSE AllowedTargetsStated(name)

\* The placement diagnostics anchored at attribute a of node n.
PlacementAt(n, a) ==
    MsgAt(<<n, a>>, PlacementMsg(krate[n].attrs[a].name))

FirstNamed(n, a) ==
    \A b \in AttrsNamed(n, krate[n].attrs[a].name) : a <= b

\* C2 as stated: the placement diagnostic of an annotation of a recognized
\* kind is emitted iff the target is outside the kind's allowed targets, with
\* target_feature allowed on functions only.
C2_PlacementIffStated ==
    \A n \in VisitedItems : \A a \in DOMAIN krate[n].attrs :
        krate[n].attrs[a].name \in PlacementKinds =>
            (PlacementAt(n, a) # {}
               <=> TargetOf(n) \notin AllowedTargetsStated(krate[n].attrs[a].name))

\* C2 amended: for inline, non_exhaustive, wasm_import_module,
\* wasm_custom_section and used the placement diagnostic of an annotation is
\* emitted, once, iff the target is outside the kind's allowed targets; for
\* target_feature the diagnostic is emitted iff the target is neither Function
\* nor Constant, and only for the first target_feature annotation of the
\* declaration.
C2_PlacementIff ==
    \A n \in VisitedItems : \A a \in DOMAIN krate[n].attrs :
        LET name == krate[n].attrs[a].name
        IN  name \in PlacementKinds =>
              Cardinality(PlacementAt(n, a))
                = B2N(/\ TargetOf(n) \notin AllowedTargets(name)
                      /\ (name = "target_feature" => FirstNamed(n, a)))

C2_Witness ==
    \E n \in VisitedItems :
        /\ krate[n].node = "ItemFn"
        /\ \E a \in AttrsNamed(n, "used") : Cardinality(PlacementAt(n, a)) = 1
        /\ \E m \in VisitedItems :
             /\ krate[m].node = "ItemFn"
             /\ \E a \in AttrsNamed(m, "inline") : PlacementAt(m, a) = {}

(***************************************************************************)
(* C6.                                                                     *)
(***************************************************************************)
\* C6: a non_exhaustive annotation on a visited declaration gets exactly one
\* E0701 error and no E0702 error if the target is neither Struct nor Enum;
\* on a struct or enum it gets exactly one E0702 error if it carries a nested
\* list or a value, and nothing if it is empty.
C6_NonExhaustive ==
    \A n \in VisitedItems : \A a \in AttrsNamed(n, "non_exhaustive") :
        LET attr  == krate[n].attrs[a]
            e0701 == CodeAtSpan(<<n, a>>, "E0701")
            e0702 == CodeAtSpan(<<n, a>>, "E0702")
        IN  IF TargetOf(n) \notin {"Struct", "Enum"}
            THEN /\ Cardinality(e0701) = 1
                 /\ e0702 = {}
                 /\ \A i \in e0701 : sink[i].msg = NonExhaustiveMsg
            ELSE /\ e0701 = {}
                 /\ Cardinality(e0702) = B2N(attr.has_list \/ attr.value)
                 /\ \A i \in e0702 : sink[i].msg = NotEmptyMsg

C6_Witness ==
    \E n \in VisitedItems :
        /\ TargetOf(n) \notin {"Struct", "Enum"}
        /\ \E a \in AttrsNamed(n, "non_exhaustive") :
             /\ krate[n].attrs[a].has_list
             /\ Cardinality(CodeAtSpan(<<n, a>>, "E0701")) = 1
             /\ CodeAtSpan(<<n, a>>, "E0702") = {}

(***************************************************************************)
(* C7.                                                                     *)
(***************************************************************************)
\* C7: on a statement that is a declaration every repr and every inline
\* annotation yields exactly one error; on an expression every repr
\* annotation yields exactly one error and an inline annotation yields one
\* iff the expression is not a closure; nothing else yields a diagnostic in
\* these positions, and a statement that is not a declaration yields none.
C7_StatementsAndExpressions ==
    /\ \A n \in VisitedStmts :
         IF krate[n].node = "StmtDecl"
         THEN /\ \A a \in AttrsNamed(n, "repr") :
                   Cardinality(CodeAtSpan(<<n, a>>, "E0517")) = 1
              /\ \A a \in AttrsNamed(n, "inline") :
                   /\ Cardinality(CodeAtSpan(<<n, a>>, "E0518")) = 1
                   /\ \A i \in CodeAtSpan(<<n, a>>, "E0518") : sink[i].msg = InlineMsg
              /\ Cardinality(DiagsOf(n))
                   = Cardinality(AttrsNamed(n, "repr")) + Cardinality(AttrsNamed(n, "inline"))
         ELSE DiagsOf(n) = {}
    /\ \A n \in VisitedExprs :
         /\ \A a \in AttrsNamed(n, "repr") :
              Cardinality(CodeAtSpan(<<n, a>>, "E0517")) = 1
         /\ \A a \in AttrsNamed(n, "inline") :
              /\ Cardinality(CodeAtSpan(<<n, a>>, "E0518"))
                   = B2N(krate[n].node # "ExprClosure")
              /\ \A i \in CodeAtSpan(<<n, a>>, "E0518") : sink[i].msg = InlineMsg
         /\ Cardinality(DiagsOf(n))
              = Cardinality(AttrsNamed(n, "repr"))
                + (IF krate[n].node # "ExprClosure"
                   THEN Cardinality(AttrsNamed(n, "inline")) ELSE 0)

C7_WitnessNotDecl ==
    \E n \in VisitedStmts :
        /\ krate[n].node # "StmtDecl"
        /\ AttrsNamed(n, "inline") # {}
        /\ AttrsNamed(n, "repr") # {}
        /\ DiagsOf(n) = {}

C7_Witness ==
    \E n \in VisitedExprs :
        /\ krate[n].node = "ExprClosure"
        /\ AttrsNamed(n, "inline") # {}
        /\ AttrsNamed(n, "repr") # {}
        /\ Cardinality(DiagsOf(n)) = 1

(***************************************************************************)
(* C9.                                                                     *)
(***************************************************************************)
TargetFeatureDiags(n) ==
    {i \in DiagsOf(n) : sink[i].msg = TargetFeatureMsg}

\* C9: a visited declaration that is neither a function nor a constant and
\* carries target_feature annotations gets the target_feature error exactly
\* once, at the first such annotation and labelled at the declaration; a
\* function or constant gets no such error and codegen_fn_attrs is asked
\* about it exactly once, with or without annotations.
C9_TargetFeatureOncePerDeclaration ==
    \A n \in VisitedItems :
        IF TargetOf(n) \in {"Fn", "Const"}
        THEN /\ TargetFeatureDiags(n) = {}
             /\ Cardinality({i \in DOMAIN codegen : codegen[i] = krate[n].id}) = 1
        ELSE /\ Cardinality(TargetFeatureDiags(n))
                  = B2N(AttrsNamed(n, "target_feature") # {})
             /\ \A i \in TargetFeatureDiags(n) : \E a \in AttrsNamed(n, "target_feature") :
                  /\ FirstNamed(n, a)
                  /\ sink[i].spans = <<<<n, a>>>>
                  /\ sink[i].labels = <<[span |-> <<n>>, msg |-> "not a function"]>>

C9_Witness ==
    \E n \in VisitedItems :
        /\ TargetOf(n) \notin {"Fn", "Const"}
        /\ Cardinality(AttrsNamed(n, "target_feature")) = 2
        /\ Cardinality(TargetFeatureDiags(n)) = 1

(***************************************************************************)
(* C8.                                                                     *)
(***************************************************************************)
\* Source order of spans: lexicographic, a prefix before its extensions.
SpanBefore(s, t) ==
    \/ \E k \in 1..Len(s) :
         /\ k <= Len(t)
         /\ \A m \in 1..(k - 1) : s[m] = t[m]
         /\ s[k] < t[k]
    \/ /\ Len(s) < Len(t)
       /\ \A m \in 1..Len(s) : s[m] = t[m]

IsPrefix(s, t) == Len(s) <= Len(t) /\ SubSeq(t, 1, Len(s)) = s

\* C8 as stated: whenever annotation (or hint) a precedes b in source order,
\* every diagnostic caused by a is in the sink before every diagnostic caused
\* by b, two annotations of one declaration included.
C8_SinkInSourceOrder ==
    \A i, j \in DOMAIN sink :
        i < j => ~SpanBefore(sink[j].spans[1], sink[i].spans[1])

\* The check of check_attributes that emits a diagnostic, in the order the
\* checks run.
Check(d) ==
    CASE d.msg = TargetFeatureMsg -> 1
      [] d.code = "E0517"         -> 3
      [] d.code = "E0692"         -> 4
      [] d.code = "E0566"         -> 5
      [] d.msg = UsedMsg          -> 6
      [] OTHER                    -> 2

\* C8 amended: the sink is only appended to, the pass does not stop at a
\* violation (every misplaced inline annotation of the node visited gets its
\* error, whatever was emitted before it), and the diagnostics of different
\* nodes appear in the order the nodes are visited.  The diagnostics of one
\* declaration appear in the order of the checks, not of the source: the
\* target_feature error, then the inline, non_exhaustive and wasm_* errors in
\* attribute order, then the repr placement errors in hint order, then E0692,
\* then E0566, then the used errors in attribute order; the diagnostics of a
\* statement or expression appear in attribute order.
C8_Step ==
    /\ IsPrefix(sink, sink')
    /\ pos' = pos + 1
    /\ \A i \in (Len(sink) + 1)..Len(sink') : NodeOf(sink'[i]) = pos'
    /\ \A i, j \in (Len(sink) + 1)..Len(sink') :
         i < j =>
            IF krate[pos'].kind = "Item"
            THEN \/ Check(sink'[i]) < Check(sink'[j])
                 \/ /\ Check(sink'[i]) = Check(sink'[j])
                    /\ ~SpanBefore(sink'[j].spans[1], sink'[i].spans[1])
            ELSE ~SpanBefore(sink'[j].spans[1], sink'[i].spans[1])
    /\ \A a \in DOMAIN krate[pos'].attrs :
         ( /\ krate[pos'].attrs[a].name = "inline"
           /\ krate[pos'].node \notin {"ItemFn", "ExprClosure"} )
         => \E i \in (Len(sink) + 1)..Len(sink') :
               sink'[i].code = "E0518" /\ sink'[i].spans = <<<<pos', a>>>>

C8_AppendOnlyInCheckOrder == [][C8_Step]_vars

C8_Witness ==
    /\ \E i, j \in DOMAIN sink :
         /\ i < j
         /\ NodeOf(sink[i]) = NodeOf(sink[j])
         /\ sink[i].code = "E0518"
         /\ sink[j].code = "E0517"
         /\ SpanBefore(sink[j].spans[1], sink[i].spans[1])
    /\ \E i, j \in DOMAIN sink : NodeOf(sink[i]) < NodeOf(sink[j])

====
